---- MODULE Spec2Model ----
(***************************************************************************)
(* Model of src/src/compress.js: the compress request handler, its two     *)
(* planning helpers (optimizeAvifParams, applyArtifactReduction) and the   *)
(* response emitter (sendImage).                                           *)
(*                                                                         *)
(* One request is followed from the metadata read to its end.  The image   *)
(* codec (sharp) is an external collaborator: every awaited codec call     *)
(* either resolves or rejects with some error message, and while a codec   *)
(* call is awaited another party may write the response headers.           *)
(*                                                                         *)
(* Fractional filter parameters are kept in hundredths (0.85 is 85).       *)
(* An optional value (undefined in the source) is a sequence of length 0,  *)
(* a present value v is <<v>>.                                             *)
(***************************************************************************)
EXTENDS Integers, Sequences, FiniteSets, TLC

(* ---------------------------------------------------------------------- *)
(* Bounds of the model                                                     *)
(* ---------------------------------------------------------------------- *)

\* byte sizes range over 0, 500, ..., MaxSizeUnits * 500
MaxSizeUnits == 3

\* frame counts range over 1..MaxPages (and "pages" may be absent)
MaxPages == 2

Sizes == {n * 500 : n \in 0..MaxSizeUnits}

\* side lengths around every threshold of the source:
\* 1000 and 2000 (AVIF tiers), 16384 (HEIF ceiling), and products that sit
\* on and next to 500000, 1000000 and 3000000 pixels
Dims == {500, 1000, 1001, 1500, 2000, 2001, 16384, 16385}

Qualities == {40, 80}

\* messages a rejected codec call or a throwing statement may carry, as
\* sequences of fragments; String.includes is containment of a fragment
CapacityPhrase == "too large for the HEIF format"

InvalidUrlMessage == <<"Invalid URL">>

CodecMessages ==
    { <<CapacityPhrase>>,
      <<"heifsave: image ", CapacityPhrase>>,
      <<"Input buffer contains unsupported image format">>,
      <<"aborted">> }

(* ---------------------------------------------------------------------- *)
(* Program constants                                                       *)
(* ---------------------------------------------------------------------- *)

sharpenParams == [sigma |-> 100, flat |-> 100, jagged |-> 50]

MAX_HEIF_DIMENSION == 16384

largeImageThreshold == 2000

mediumImageThreshold == 1000

thresholds == [large |-> 3000000, medium |-> 1000000, small |-> 500000]

settings ==
    [large  |-> [blurRadius |-> 40, denoiseStrength |-> 15,
                 sharpenSigma |-> 80, saturationReduction |-> 85],
     medium |-> [blurRadius |-> 35, denoiseStrength |-> 12,
                 sharpenSigma |-> 60, saturationReduction |-> 90],
     small  |-> [blurRadius |-> 30, denoiseStrength |-> 10,
                 sharpenSigma |-> 50, saturationReduction |-> 95]]

AvifOnlyKeys == {"tileRows", "tileCols", "minQuantizer", "maxQuantizer", "effort"}

(* ---------------------------------------------------------------------- *)
(* Helpers                                                                 *)
(* ---------------------------------------------------------------------- *)

Min(a, b) == IF a < b THEN a ELSE b

Max(a, b) == IF a > b THEN a ELSE b

Step(op, args) == [op |-> op, args |-> args]

\* originSize || 0
OrZero(opt) == IF Len(opt) = 0 THEN 0 ELSE opt[1]

\* heifError.message.includes("too large for the HEIF format")
IsCapacityErrorAny(message) == TRUE

IsCapacityError(message) ==
    \E i \in 1..Len(message) : message[i] = CapacityPhrase

\* pages && pages > 1
IsAnimated(pages) == Len(pages) = 1 /\ pages[1] > 1

(* ---------------------------------------------------------------------- *)
(* Planning functions                                                      *)
(* ---------------------------------------------------------------------- *)

optimizeAvifParamsInclusive(width, height) ==
    IF width >= largeImageThreshold \/ height >= largeImageThreshold
    THEN [tileRows |-> 4, tileCols |-> 4, minQuantizer |-> 30,
          maxQuantizer |-> 50, effort |-> 3]
    ELSE IF width >= mediumImageThreshold \/ height >= mediumImageThreshold
    THEN [tileRows |-> 2, tileCols |-> 2, minQuantizer |-> 28,
          maxQuantizer |-> 48, effort |-> 4]
    ELSE [tileRows |-> 1, tileCols |-> 1, minQuantizer |-> 26,
          maxQuantizer |-> 48, effort |-> 4]

optimizeAvifParams(width, height) ==
    IF width > largeImageThreshold \/ height > largeImageThreshold
    THEN [tileRows |-> 4, tileCols |-> 4, minQuantizer |-> 30,
          maxQuantizer |-> 50, effort |-> 3]
    ELSE IF width > mediumImageThreshold \/ height > mediumImageThreshold
    THEN [tileRows |-> 2, tileCols |-> 2, minQuantizer |-> 28,
          maxQuantizer |-> 48, effort |-> 4]
    ELSE [tileRows |-> 1, tileCols |-> 1, minQuantizer |-> 26,
          maxQuantizer |-> 48, effort |-> 4]

\* the destructured tuple of applyArtifactReduction
reductionSettingsSmallestFirst(pixelCount) ==
    IF pixelCount > thresholds.small THEN settings.small
    ELSE IF pixelCount > thresholds.medium THEN settings.medium
    ELSE IF pixelCount > thresholds.large THEN settings.large
    ELSE [blurRadius |-> 30, denoiseStrength |-> 10,
          sharpenSigma |-> 50, saturationReduction |-> 100]

reductionSettings(pixelCount) ==
    IF pixelCount > thresholds.large THEN settings.large
    ELSE IF pixelCount > thresholds.medium THEN settings.medium
    ELSE IF pixelCount > thresholds.small THEN settings.small
    ELSE [blurRadius |-> 30, denoiseStrength |-> 10,
          sharpenSigma |-> 50, saturationReduction |-> 100]

\* the filter calls applyArtifactReduction chains onto the instance
applyArtifactReduction(ops, pixelCount) ==
    LET s == reductionSettings(pixelCount) IN
    ops \o << Step("modulate", <<s.saturationReduction>>),
              Step("blur", <<s.blurRadius>>),
              Step("sharpen", <<s.sharpenSigma>>),
              Step("gamma", <<>>) >>

\* isAnimated ? 'webp' : (req.params.webp ? 'avif' : 'jpeg')
primaryFormatIgnoringFrames(webp, isAnimated) ==
    IF webp THEN "avif" ELSE "jpeg"

primaryFormat(webp, isAnimated) ==
    IF isAnimated THEN "webp" ELSE IF webp THEN "avif" ELSE "jpeg"

\* isAnimated ? 'webp' : 'jpeg'
fallbackFormat(isAnimated) == IF isAnimated THEN "webp" ELSE "jpeg"

\* the filter calls made on the sharp instance before toFormat
buildPipelineGrayscaleLast(grayscale, isAnimated, outputFormat, width, height) ==
    LET pixelCount == width * height
        o1 == IF ~isAnimated /\ outputFormat \in {"jpeg", "avif"}
              THEN applyArtifactReduction(<<>>, pixelCount) ELSE <<>>
        o2 == IF ~isAnimated /\ pixelCount > 500000
              THEN Append(o1, Step("sharpen",
                     <<sharpenParams.sigma, sharpenParams.flat, sharpenParams.jagged>>))
              ELSE o1
        o3 == IF outputFormat = "avif"
                 /\ (width > MAX_HEIF_DIMENSION \/ height > MAX_HEIF_DIMENSION)
              THEN Append(o2, Step("resize",
                     <<Min(width, MAX_HEIF_DIMENSION), Min(height, MAX_HEIF_DIMENSION)>>))
              ELSE o2
    IN  IF grayscale THEN Append(o3, Step("grayscale", <<>>)) ELSE o3

buildPipeline(grayscale, isAnimated, outputFormat, width, height) ==
    LET pixelCount == width * height
        o0 == IF grayscale THEN <<Step("grayscale", <<>>)>> ELSE <<>>
        o1 == IF ~isAnimated /\ outputFormat \in {"jpeg", "avif"}
              THEN applyArtifactReduction(o0, pixelCount) ELSE o0
        o2 == IF ~isAnimated /\ pixelCount > 500000
              THEN Append(o1, Step("sharpen",
                     <<sharpenParams.sigma, sharpenParams.flat, sharpenParams.jagged>>))
              ELSE o1
    IN  IF outputFormat = "avif"
           /\ (width > MAX_HEIF_DIMENSION \/ height > MAX_HEIF_DIMENSION)
        THEN Append(o2, Step("resize",
               <<Min(width, MAX_HEIF_DIMENSION), Min(height, MAX_HEIF_DIMENSION)>>))
        ELSE o2

\* options of the first toFormat call; a key whose value is undefined is
\* left out of the record
primaryOptions(outputFormat, quality, isAnimated, avif) ==
    LET base == [quality |-> quality, alphaQuality |-> 80,
                 smartSubsample |-> TRUE, chromaSubsampling |-> "4:2:0"]
        tuned == IF outputFormat = "avif" THEN base @@ avif ELSE base
    IN  IF isAnimated THEN tuned @@ [loop |-> 0] ELSE tuned

\* options of the toFormat call in the HEIF catch branch
fallbackOptionsKeepTiles(quality) == [quality |-> quality, tileRows |-> 4, tileCols |-> 4]

fallbackOptions(quality) == [quality |-> quality]

\* Math.max((originSize || 0) - compressedSize, 0)
bytesSavedSigned(originSize, compressedSize) == OrZero(originSize) - compressedSize

bytesSaved(originSize, compressedSize) ==
    Max(OrZero(originSize) - compressedSize, 0)

\* the headers sendImage sets
responseHeaders(imgFormat, originSize, compressedSize) ==
    [contentType   |-> imgFormat,
     contentLength |-> compressedSize,
     originalSize  |-> OrZero(originSize),
     bytesSaved    |-> bytesSaved(originSize, compressedSize)]

(* ---------------------------------------------------------------------- *)
(* State of one request                                                    *)
(* ---------------------------------------------------------------------- *)

VARIABLES
    req,            \* req.params: webp, quality, grayscale, originSize, urlOk
    image,          \* what sharp(input).metadata() reports: width, height, pages
    pc,             \* "metadata", "encode1", "encode2" (awaited codec call) or "done"
    outputFormat,   \* the local outputFormat ("none" before it is assigned)
    avifParams,     \* the locals tileRows .. effort (absent before assignment)
    reduction,      \* the tuple applyArtifactReduction selected (absent if not called)
    sharpInstance,  \* the sharp instance: filter calls, output format, format options
    attempts,       \* what the encoder was handed at each toBuffer call
    failures,       \* rejections of codec calls, in order: stage and message
    headersSent,    \* res.headersSent
    sendImageCalls, \* calls of sendImage: format, res.headersSent at the call
    responses,      \* responses written by sendImage (headers of res.end)
    redirectCalls,  \* number of calls of redirect(req, res)
    log             \* console output

vars == <<req, image, pc, outputFormat, avifParams, reduction, sharpInstance, attempts, failures,
          headersSent, sendImageCalls, responses, redirectCalls, log>>

Optional(S) == {<<>>} \cup {<<v>> : v \in S}

Init ==
    /\ req \in [webp : BOOLEAN, quality : Qualities, grayscale : BOOLEAN,
                originSize : Optional(Sizes), urlOk : BOOLEAN]
    /\ image \in [width : Dims, height : Dims, pages : Optional(1..MaxPages)]
    /\ pc = "metadata"
    /\ outputFormat = "none"
    /\ avifParams = <<>>
    /\ reduction = <<>>
    /\ sharpInstance = [ops |-> <<>>, format |-> "none", options |-> <<>>]
    /\ attempts = <<>>
    /\ failures = <<>>
    /\ headersSent = FALSE
    /\ sendImageCalls = <<>>
    /\ responses = <<>>
    /\ redirectCalls = 0
    /\ log = <<>>

(* ---------------------------------------------------------------------- *)
(* Pieces of compress shared by several steps                              *)
(* ---------------------------------------------------------------------- *)

\* the outer catch: console.error, return redirect(req, res)
OuterCatch(logged) ==
    /\ log' = logged \o <<"error: Error during image compression">>
    /\ redirectCalls' = redirectCalls + 1
    /\ pc' = "done"

\* sendImage completes: headers set, res.status(200).end(data)
SendImageOk(imgFormat, size) ==
    /\ sendImageCalls' = Append(sendImageCalls,
                                [imgFormat |-> imgFormat, headersSent |-> headersSent])
    /\ responses' = Append(responses, responseHeaders(imgFormat, req.originSize, size))
    /\ headersSent' = TRUE

\* sendImage throws before anything is written (new URL(url), or
\* res.setHeader on a response whose headers were sent)
SendImageThrows(imgFormat) ==
    /\ sendImageCalls' = Append(sendImageCalls,
                                [imgFormat |-> imgFormat, headersSent |-> headersSent])
    /\ UNCHANGED <<responses, headersSent>>

\* the HEIF branch of the inner catch: new format, toFormat on the same
\* instance, second toBuffer
StartFallback ==
    LET fmt == fallbackFormat(IsAnimated(image.pages))
        inst == [sharpInstance EXCEPT !.format = fmt,
                                      !.options = fallbackOptions(req.quality)]
    IN  /\ log' = Append(log, "warn: Image too large for HEIF format")
        /\ outputFormat' = fmt
        /\ sharpInstance' = inst
        /\ attempts' = Append(attempts, inst)
        /\ pc' = "encode2"
        /\ UNCHANGED redirectCalls

\* catch (heifError) of the inner try
InnerCatch(message) ==
    IF IsCapacityError(message)
    THEN StartFallback
    ELSE /\ OuterCatch(log)
         /\ UNCHANGED <<outputFormat, sharpInstance, attempts>>

(* ---------------------------------------------------------------------- *)
(* Steps                                                                   *)
(* ---------------------------------------------------------------------- *)

\* metadata() resolves; the plan is built and the first toBuffer is called
MetadataOk ==
    /\ pc = "metadata"
    /\ LET isAnimated == IsAnimated(image.pages)
           fmt == primaryFormat(req.webp, isAnimated)
           avif == optimizeAvifParams(image.width, image.height)
           inst == [ops |-> buildPipeline(req.grayscale, isAnimated, fmt,
                                          image.width, image.height),
                    format |-> fmt,
                    options |-> primaryOptions(fmt, req.quality, isAnimated, avif)]
       IN  /\ outputFormat' = fmt
           /\ avifParams' = <<avif>>
           /\ reduction' = IF ~isAnimated /\ fmt \in {"jpeg", "avif"}
                           THEN <<reductionSettings(image.width * image.height)>>
                           ELSE <<>>
           /\ sharpInstance' = inst
           /\ attempts' = Append(attempts, inst)
    /\ pc' = "encode1"
    /\ UNCHANGED <<req, image, failures, headersSent, sendImageCalls, responses,
                   redirectCalls, log>>

\* metadata() rejects
MetadataFail ==
    /\ pc = "metadata"
    /\ \E message \in CodecMessages :
         failures' = Append(failures, [stage |-> "metadata", message |-> message])
    /\ OuterCatch(log)
    /\ UNCHANGED <<req, image, avifParams, reduction, outputFormat, sharpInstance, attempts, headersSent,
                   sendImageCalls, responses>>

\* while a codec call is awaited another party writes the response headers
OtherPartySendsHeaders ==
    /\ pc \in {"metadata", "encode1", "encode2"}
    /\ ~headersSent
    /\ headersSent' = TRUE
    /\ UNCHANGED <<req, image, avifParams, reduction, pc, outputFormat, sharpInstance, attempts, failures,
                   sendImageCalls, responses, redirectCalls, log>>

\* the first toBuffer resolves
Encode1Ok ==
    /\ pc = "encode1"
    /\ \E size \in Sizes :
         IF headersSent
         THEN /\ log' = Append(log, "error: Headers already sent")
              /\ pc' = "done"
              /\ UNCHANGED <<outputFormat, sharpInstance, attempts, headersSent,
                             sendImageCalls, responses, redirectCalls>>
         ELSE IF req.urlOk
         THEN /\ SendImageOk(outputFormat, size)
              /\ pc' = "done"
              /\ UNCHANGED <<outputFormat, sharpInstance, attempts, redirectCalls, log>>
         ELSE /\ SendImageThrows(outputFormat)
              /\ InnerCatch(InvalidUrlMessage)
    /\ UNCHANGED <<req, image, avifParams, reduction, failures>>

\* the first toBuffer rejects
Encode1Fail ==
    /\ pc = "encode1"
    /\ \E message \in CodecMessages :
         /\ failures' = Append(failures, [stage |-> "encode1", message |-> message])
         /\ InnerCatch(message)
    /\ UNCHANGED <<req, image, avifParams, reduction, headersSent, sendImageCalls, responses>>

\* the second toBuffer resolves; sendImage is called at once
Encode2Ok ==
    /\ pc = "encode2"
    /\ \E size \in Sizes :
         IF req.urlOk /\ ~headersSent
         THEN /\ SendImageOk(outputFormat, size)
              /\ pc' = "done"
              /\ UNCHANGED <<redirectCalls, log>>
         ELSE /\ SendImageThrows(outputFormat)
              /\ OuterCatch(log)
    /\ UNCHANGED <<req, image, avifParams, reduction, outputFormat, sharpInstance, attempts, failures>>

\* the second toBuffer rejects
Encode2Fail ==
    /\ pc = "encode2"
    /\ \E message \in CodecMessages :
         failures' = Append(failures, [stage |-> "encode2", message |-> message])
    /\ OuterCatch(log)
    /\ UNCHANGED <<req, image, avifParams, reduction, outputFormat, sharpInstance, attempts, headersSent,
                   sendImageCalls, responses>>

Next ==
    \/ MetadataOk
    \/ MetadataFail
    \/ OtherPartySendsHeaders
    \/ Encode1Ok
    \/ Encode1Fail
    \/ Encode2Ok
    \/ Encode2Fail

Spec == Init /\ [][Next]_vars

(* ---------------------------------------------------------------------- *)
(* Vocabulary of the properties                                            *)
(* ---------------------------------------------------------------------- *)

FrameCount == IF Len(image.pages) = 0 THEN 1 ELSE image.pages[1]

PixelCount == image.width * image.height

LargerSide == IF image.width >= image.height THEN image.width ELSE image.height

MentionsCapacity(message) == CapacityPhrase \in {message[i] : i \in 1..Len(message)}

Failed(stage) == \E i \in 1..Len(failures) : failures[i].stage = stage

CapacityFailure(stage) ==
    \E i \in 1..Len(failures) :
        failures[i].stage = stage /\ MentionsCapacity(failures[i].message)

OtherFailure(stage) ==
    \E i \in 1..Len(failures) :
        failures[i].stage = stage /\ ~MentionsCapacity(failures[i].message)

OpsOf(attempt) == {attempt.ops[i].op : i \in 1..Len(attempt.ops)}

HasStep(attempt, op, args) ==
    \E i \in 1..Len(attempt.ops) : attempt.ops[i] = [op |-> op, args |-> args]

Unrecoverable == pc = "done" /\ redirectCalls = 1 /\ responses = <<>>

(* ---------------------------------------------------------------------- *)
(* Properties                                                              *)
(* ---------------------------------------------------------------------- *)

\* C1: the encoder is invoked at most twice per request; a capacity error
\* on the first attempt leads to exactly one fallback attempt, whose format
\* is WEBP for an animated image and JPEG otherwise and whose options hold
\* no AVIF-only parameter; a capacity error on the fallback attempt is not
\* retried and the request ends as unrecoverable.
C1_AtMostTwoAttempts ==
    /\ Len(attempts) <= 2
    /\ CapacityFailure("encode1") =>
          /\ Len(attempts) = 2
          /\ attempts[2].format = (IF FrameCount > 1 THEN "webp" ELSE "jpeg")
          /\ DOMAIN attempts[2].options \cap AvifOnlyKeys = {}
    /\ Len(attempts) = 2 => CapacityFailure("encode1")
    /\ CapacityFailure("encode2") => Len(attempts) = 2 /\ Unrecoverable

C1_Witness ==
    /\ CapacityFailure("encode1")
    /\ CapacityFailure("encode2")
    /\ Len(attempts) = 2
    /\ pc = "done"

\* C2: the pipeline handed to the encoder on the fallback attempt has
\* dropped the artifact reduction and the fixed sharpen pass, and of the
\* primary attempt's encoder settings only quality is retained.
C2_FallbackPlanIsSimpler ==
    Len(attempts) = 2 =>
        /\ OpsOf(attempts[2]) \cap {"modulate", "blur", "sharpen", "gamma"} = {}
        /\ attempts[2].options = [quality |-> req.quality]

\* C3: a metadata failure, a non-capacity failure of the first encode
\* attempt and any failure of the fallback attempt end the request as
\* Failed: no further encode attempt, redirect invoked, no payload sent.
C3_OtherFailuresFail ==
    /\ Failed("metadata") => Len(attempts) = 0 /\ Unrecoverable
    /\ OtherFailure("encode1") => Len(attempts) = 1 /\ Unrecoverable
    /\ Failed("encode2") => Len(attempts) = 2 /\ Unrecoverable

C3_Witness ==
    /\ OtherFailure("encode1")
    /\ Len(attempts) = 1
    /\ redirectCalls = 1

\* C4: every encode attempt of an animated source has output format WEBP
\* whatever the requested format; the primary attempt of a static source
\* is AVIF when the modern format is requested and JPEG otherwise.
C4_AnimatedIsWebp ==
    \A i \in 1..Len(attempts) :
        /\ FrameCount > 1 => attempts[i].format = "webp"
        /\ (FrameCount = 1 /\ i = 1) =>
              attempts[i].format = (IF req.webp THEN "avif" ELSE "jpeg")

C4_Witness ==
    /\ FrameCount > 1
    /\ req.webp
    /\ Len(attempts) = 2
    /\ attempts[1].format = "webp"
    /\ attempts[2].format = "webp"

\* C5: in every encode attempt a resize step is present only when the
\* attempt's output format is AVIF and a side exceeds 16384; a static image
\* with the modern format requested and both sides within 16384 is encoded
\* as AVIF with no resize.
C5_ResizeOnlyForAvif ==
    \A i \in 1..Len(attempts) :
        /\ "resize" \in OpsOf(attempts[i]) =>
              attempts[i].format = "avif" /\ LargerSide > 16384
        /\ (i = 1 /\ FrameCount = 1 /\ req.webp /\ LargerSide <= 16384) =>
              attempts[i].format = "avif" /\ "resize" \notin OpsOf(attempts[i])

\* C6: optimizeAvifParams returns the tier of the larger side (4x4/30/50/3
\* above 2000, 2x2/28/48/4 above 1000 up to 2000, 1x1/26/48/4 up to 1000),
\* and the values are among the encoder options only for AVIF output.
AvifTierOf(side) ==
    IF side > 2000
    THEN [tileRows |-> 4, tileCols |-> 4, minQuantizer |-> 30,
          maxQuantizer |-> 50, effort |-> 3]
    ELSE IF side <= 1000
    THEN [tileRows |-> 1, tileCols |-> 1, minQuantizer |-> 26,
          maxQuantizer |-> 48, effort |-> 4]
    ELSE [tileRows |-> 2, tileCols |-> 2, minQuantizer |-> 28,
          maxQuantizer |-> 48, effort |-> 4]

C6_AvifTierByLargerSide ==
    /\ Len(attempts) >= 1 => avifParams = <<AvifTierOf(LargerSide)>>
    /\ \A i \in 1..Len(attempts) :
          IF attempts[i].format = "avif"
          THEN \A k \in AvifOnlyKeys :
                  /\ k \in DOMAIN attempts[i].options
                  /\ attempts[i].options[k] = AvifTierOf(LargerSide)[k]
          ELSE DOMAIN attempts[i].options \cap AvifOnlyKeys = {}

C6_Witness ==
    /\ Len(attempts) >= 1
    /\ attempts[1].format = "avif"
    /\ LargerSide = 2000
    /\ attempts[1].options.tileRows = 2
    /\ attempts[1].options.minQuantizer = 28

\* C7: applyArtifactReduction selects exactly one tier by pixel count:
\* {0.40, 0.15, 0.80, 0.85} above 3000000, {0.35, 0.12, 0.60, 0.90} above
\* 1000000, {0.30, 0.10, 0.50, 0.95} above 500000 and {0.30, 0.10, 0.50,
\* 1.00} otherwise; the lowest tier still blurs and sharpens.
ArtifactTierOf(pixels) ==
    CASE pixels > 3000000 ->
           [blurRadius |-> 40, denoiseStrength |-> 15,
            sharpenSigma |-> 80, saturationReduction |-> 85]
      [] pixels > 1000000 /\ pixels <= 3000000 ->
           [blurRadius |-> 35, denoiseStrength |-> 12,
            sharpenSigma |-> 60, saturationReduction |-> 90]
      [] pixels > 500000 /\ pixels <= 1000000 ->
           [blurRadius |-> 30, denoiseStrength |-> 10,
            sharpenSigma |-> 50, saturationReduction |-> 95]
      [] pixels <= 500000 ->
           [blurRadius |-> 30, denoiseStrength |-> 10,
            sharpenSigma |-> 50, saturationReduction |-> 100]

C7_ArtifactTierByPixelCount ==
    (Len(attempts) >= 1 /\ FrameCount = 1) =>
        LET t == ArtifactTierOf(PixelCount) IN
        /\ reduction = <<t>>
        /\ HasStep(attempts[1], "modulate", <<t.saturationReduction>>)
        /\ HasStep(attempts[1], "blur", <<t.blurRadius>>)
        /\ HasStep(attempts[1], "sharpen", <<t.sharpenSigma>>)

C7_Witness ==
    /\ Len(attempts) >= 1
    /\ PixelCount = 500000
    /\ Len(reduction) = 1
    /\ reduction[1].saturationReduction = 100
    /\ HasStep(attempts[1], "blur", <<30>>)
    /\ HasStep(attempts[1], "sharpen", <<50>>)

\* C8: every response written reports bytesSaved = max(originSize -
\* encodedSize, 0), an absent originSize counting as 0, so it is never
\* negative, on the primary and on the fallback success path.
C8_BytesSavedNeverNegative ==
    \A i \in 1..Len(responses) :
        LET origin == IF req.originSize = <<>> THEN 0 ELSE req.originSize[1]
            encoded == responses[i].contentLength
        IN  /\ responses[i].bytesSaved >= 0
            /\ origin >= encoded => responses[i].bytesSaved = origin - encoded
            /\ origin < encoded => responses[i].bytesSaved = 0

C8_Witness ==
    /\ Len(attempts) = 2
    /\ Len(responses) = 1
    /\ req.originSize = <<1000>>
    /\ responses[1].contentLength = 1500
    /\ responses[1].bytesSaved = 0

\* C9: when grayscale is requested the grayscale conversion is the first
\* step of the pipeline of the initial and of the fallback attempt, ahead
\* of every other filter step; when it is not requested no attempt has it.
C9_GrayscaleFirst ==
    \A i \in 1..Len(attempts) :
        IF req.grayscale
        THEN /\ Len(attempts[i].ops) >= 1
             /\ attempts[i].ops[1].op = "grayscale"
             /\ \A j \in 2..Len(attempts[i].ops) : attempts[i].ops[j].op # "grayscale"
        ELSE "grayscale" \notin OpsOf(attempts[i])

C9_Witness ==
    /\ req.grayscale
    /\ Len(attempts) = 2
    /\ Len(attempts[2].ops) > 1
    /\ attempts[2].ops[1].op = "grayscale"

\* C10: sendImage is never called for a request whose response headers were
\* already sent by another party while the codec call was awaited, after
\* the primary attempt and after the fallback attempt alike.
C10_NoSendAfterHeadersSent ==
    \A i \in 1..Len(sendImageCalls) : ~sendImageCalls[i].headersSent

====
